---- MODULE Spec2Model ----
(***************************************************************************)
(* Model of audioBufferToWav (src/components/TextToSpeech.tsx:323-376),    *)
(* the PCM-to-WAV encoder: it allocates an ArrayBuffer, writes a 44-byte   *)
(* RIFF/WAVE header through a DataView and then the interleaved 16-bit     *)
(* samples of an AudioBuffer.                                              *)
(*                                                                         *)
(* Each invocation has its own locals (length, view, channels, offset,     *)
(* pos, the inner loop index i); they are modelled as functions of the     *)
(* call index.  One step of the model is one DataView write, one loop test *)
(* or one loop exit.                                                       *)
(*                                                                         *)
(* Numbers.  Integers handed to setUint16/setUint32 are sequences of       *)
(* base-256 digits, least significant first, so that a product beyond      *)
(* 2^31 keeps its exact value until the DataView reduces it to the width   *)
(* of the field.  Samples are IEEE numbers: a finite sample is the exact   *)
(* rational whole + frac/Den (whole the floor, 0 <= frac < Den), the       *)
(* others are NaN, +Infinity and -Infinity; `undefined` is what an index   *)
(* past the end of a channel yields.  A float32 sample times 0x7fff or     *)
(* 0x8000 is exact in double precision, so exact rationals are what the    *)
(* code computes.                                                          *)
(***************************************************************************)
EXTENDS Integers, Sequences, FiniteSets, TLC

\* ------------------------------------------------------------------ bounds
MaxChannels == 2
MaxFrames == 3
NumCalls == 2
NumBytes == 8
Den == 65536
MaxRuns == 2
MaxRenders == 2
MaxAdds == 3

Calls == 1..NumCalls

\* ------------------------------------------------- program constants (hex)
RIFF == 1179011410
WAVE == 1163280727
FMT == 544501094
DATA == 1635017060
FMT_SIZE == 16
PCM == 1
BITS == 16
NEG_SCALE == 32768
POS_SCALE == 32767

VARIABLES pc, buffer, length, view, channels, offset, pos, i, hstep, wlog,
          tts, composer

\* The locals of the audioBufferToWav calls.
encVars == <<pc, buffer, length, view, channels, offset, pos, i, hstep, wlog>>

\* The state of the TextToSpeech and of the VideoComposer component.
uiVars == <<tts, composer>>

vars == <<pc, buffer, length, view, channels, offset, pos, i, hstep, wlog, tts, composer>>

\* ------------------------------------------------------- IEEE sample values
Fin(n) == [k |-> "fin", whole |-> n \div Den, frac |-> n % Den]
NaN == [k |-> "nan", whole |-> 0, frac |-> 0]
PosInf == [k |-> "inf", whole |-> 1, frac |-> 0]
NegInf == [k |-> "inf", whole |-> -1, frac |-> 0]
Undefined == [k |-> "undef", whole |-> 0, frac |-> 0]

\* ToNumber: undefined converts to NaN, a number to itself.
ToNumber(x) == IF x.k = "undef" THEN NaN ELSE x

\* a < b on numbers; false when either is NaN.
FLess(a, b) ==
    /\ a.k # "nan"
    /\ b.k # "nan"
    /\ IF a.k = "inf" THEN a.whole < 0 /\ ~(b.k = "inf" /\ b.whole < 0)
       ELSE IF b.k = "inf" THEN b.whole > 0
       ELSE a.whole < b.whole \/ (a.whole = b.whole /\ a.frac < b.frac)

\* Math.min / Math.max: NaN if either argument is NaN.
MathMin(a, b) ==
    LET x == ToNumber(a)
        y == ToNumber(b)
    IN IF x.k = "nan" \/ y.k = "nan" THEN NaN
       ELSE IF FLess(y, x) THEN y ELSE x

MathMax(a, b) ==
    LET x == ToNumber(a)
        y == ToNumber(b)
    IN IF x.k = "nan" \/ y.k = "nan" THEN NaN
       ELSE IF FLess(x, y) THEN y ELSE x

\* x * m for a positive integer m.
FMul(x, m) ==
    IF x.k = "fin"
    THEN LET p == x.frac * m
         IN [k |-> "fin", whole |-> x.whole * m + (p \div Den), frac |-> p % Den]
    ELSE x

\* The conversion DataView.setInt16 applies to its value: NaN and the
\* infinities become 0, a finite number is truncated toward zero and
\* reduced modulo 2^16 into -32768..32767.
ToInt16(x) ==
    IF x.k # "fin" THEN 0
    ELSE LET t == IF x.whole >= 0 \/ x.frac = 0 THEN x.whole ELSE x.whole + 1
             u == t % 65536
         IN IF u >= 32768 THEN u - 65536 ELSE u


\* Variant: the sample stored high byte first (littleEndian omitted).
Int16Bytes_BigEndian(v) ==
    LET u == v % 65536
    IN <<u \div 256, u % 256>>

\* The two bytes of a 16-bit integer, little-endian (third argument true).
Int16Bytes(v) ==
    LET u == v % 65536
    IN <<u % 256, u \div 256>>

\* --------------------------------------------- integers for the header
\* The base-256 digits of an integer 0 <= n < 2^31, least significant first.
UInt(n) == [d \in 1..NumBytes |-> IF d <= 4 THEN (n \div (256 ^ (d - 1))) % 256 ELSE 0]

\* x * m for a digit sequence x and an integer 0 <= m < 2^23.
UMul(x, m) ==
    LET t[d \in 0..NumBytes] == IF d = 0 THEN 0 ELSE x[d] * m + (t[d - 1] \div 256)
    IN [d \in 1..NumBytes |-> t[d] % 256]


\* Variant: the field stored high byte first (littleEndian omitted).
UintBytes_BigEndian(x, size) == [d \in 1..size |-> x[size + 1 - d]]

\* DataView.setUint32 / setUint16 with littleEndian = true keep the low
\* four / two bytes of the value, low byte first.
UintBytes(x, size) == [d \in 1..size |-> x[d]]

\* ------------------------------------------------------------ the inputs
\* An AudioBuffer: sampleRate, numberOfChannels, length (the frame count)
\* and the channel data getChannelData returns.
SampleList ==
    << Fin(0), Fin(Den), Fin(-Den), Fin(Den + (Den \div 2)), Fin(Den \div 2),
       Fin(-(Den \div 2)), Fin(Den \div 4), Fin(-3), Fin(3),
       Fin(-(Den + (Den \div 2))), NaN, PosInf, NegInf >>

SampleRates == {1, 8000, 44100, 1073741824}

\* The channel data of the buffer number `start` of a shape: consecutive
\* slots hold consecutive entries of SampleList, so every value occurs in
\* every slot.  With short = 1 the last channel is one frame too short.
MkBuffer(sr, nch, frames, start, short) ==
    [sampleRate |-> sr, numberOfChannels |-> nch, length |-> frames,
     chans |-> [c \in 1..nch |->
                  [fr \in 1..(IF short = 1 /\ c = nch /\ frames > 0
                              THEN frames - 1 ELSE frames) |->
                     SampleList[((start + (c - 1) * frames + (fr - 1))
                                   % Len(SampleList)) + 1]]]]

\* The scenarios spelled out in section 8 of the specification.
Scenarios ==
    { [sampleRate |-> 8000, numberOfChannels |-> 1, length |-> 3,
       chans |-> << <<Fin(0), Fin(Den), Fin(-Den)>> >>],
      [sampleRate |-> 44100, numberOfChannels |-> 2, length |-> 2,
       chans |-> << <<Fin(0), Fin(Den \div 2)>>, <<Fin(-(Den \div 2)), Fin(Den)>> >>] }

Buffers ==
    { MkBuffer(sr, nch, frames, start, short) :
        sr \in SampleRates, nch \in 0..MaxChannels, frames \in 0..MaxFrames,
        start \in 0..(Len(SampleList) - 1), short \in 0..1 }
    \cup Scenarios

\* The empty buffer record of a call that has not started.
NoBuffer == [sampleRate |-> 0, numberOfChannels |-> 0, length |-> 0, chans |-> << >>]

\* Section 3 of the specification: the invariants of a well-formed buffer.
WellFormed(b) ==
    /\ b.sampleRate >= 1
    /\ b.numberOfChannels >= 1
    /\ b.length >= 1
    /\ Len(b.chans) = b.numberOfChannels
    /\ \A c \in 1..Len(b.chans) : Len(b.chans[c]) = b.length

\* ------------------------------------------------ ArrayBuffer and DataView
NewArrayBuffer(len) == [k \in 0..(len - 1) |-> 0]

ByteLength(v) == Cardinality(DOMAIN v)

\* A DataView write of `size` bytes at p is in range iff p + size <= byteLength;
\* otherwise the DataView throws a RangeError and writes nothing.
InRange(v, p, size) == p >= 0 /\ p + size <= ByteLength(v)

SetBytes(v, p, bytes) ==
    [k \in DOMAIN v |-> IF k >= p /\ k < p + Len(bytes) THEN bytes[k - p + 1] ELSE v[k]]

\* arr[j] of a JavaScript array or typed array: undefined past the end.
Index(arr, j) == IF j + 1 \in DOMAIN arr THEN arr[j + 1] ELSE Undefined

\* ------------------------------------------------------ audioBufferToWav

\* Variant: the payload sized for one frame more than the buffer holds.
WavLength_ExtraFrame(b) == (b.length + 1) * b.numberOfChannels * 2 + 44

WavLength(b) == b.length * b.numberOfChannels * 2 + 44


\* Variant: the frame offset is kept from the first call instead of reset.
InitialOffset_Stale == offset[1]

InitialOffset == 0

\* Variant: the write position taken over from the first call.
InitialPos_Shared == pos[1]

InitialPos == 0


\* Variant: ChunkSize written as the whole length.
ChunkSize_Whole(len) == len

ChunkSize(len) == len - 8


\* Variant: ByteRate computed for a mono buffer.
ByteRate_Mono(b) == UMul(UInt(b.sampleRate), 2)

ByteRate(b) == UMul(UMul(UInt(b.sampleRate), 2), b.numberOfChannels)

BlockAlign(b) == b.numberOfChannels * 2

Subchunk2Size(len, p) == len - p - 4

\* The thirteen setUint32 / setUint16 calls of the header, in order.
HeaderFields(b, len, p) ==
    << [size |-> 4, data |-> UInt(RIFF)],
       [size |-> 4, data |-> UInt(ChunkSize(len))],
       [size |-> 4, data |-> UInt(WAVE)],
       [size |-> 4, data |-> UInt(FMT)],
       [size |-> 4, data |-> UInt(FMT_SIZE)],
       [size |-> 2, data |-> UInt(PCM)],
       [size |-> 2, data |-> UInt(b.numberOfChannels)],
       [size |-> 4, data |-> UInt(b.sampleRate)],
       [size |-> 4, data |-> ByteRate(b)],
       [size |-> 2, data |-> UInt(BlockAlign(b))],
       [size |-> 2, data |-> UInt(BITS)],
       [size |-> 4, data |-> UInt(DATA)],
       [size |-> 4, data |-> UInt(Subchunk2Size(len, p))] >>

HeaderCount == 13

\* let sample = Math.max(-1, Math.min(1, channels[i][offset]))
Clamp(x) == MathMax(Fin(-Den), MathMin(Fin(Den), x))

\* sample = sample < 0 ? sample * 0x8000 : sample * 0x7fff

\* Variant: the symmetric scale, 0x7fff for both signs.
Scale_Symmetric(s) == FMul(s, POS_SCALE)

Scale(s) == IF FLess(s, Fin(0)) THEN FMul(s, NEG_SCALE) ELSE FMul(s, POS_SCALE)


\* Variant: the two indices swapped, channels[offset][i].
SampleAt_Swapped(chs, ch, off) == Index(Index(chs, off), ch)

\* channels[i][offset]
SampleAt(chs, ch, off) == Index(Index(chs, ch), off)


\* Variant: the loop stops while one sample is still to be written.
WhileCond_Early(p, len) == p + 2 < len

\* Variant: the loop test off by one, pos <= length.
WhileCond_Inclusive(p, len) == p <= len

\* while (pos < length)
WhileCond(p, len) == p < len

\* Variant: the clamped sample stored back into the channel,
\* channels[i][offset] = Math.max(-1, Math.min(1, channels[i][offset])).
ChannelDataAfter_InPlace(data, ch, off, clamped) ==
    IF ch + 1 \in DOMAIN data /\ off + 1 \in DOMAIN data[ch + 1]
    THEN [data EXCEPT ![ch + 1][off + 1] = clamped]
    ELSE data

\* Lines 367-368 assign the local `sample` only: the channel data is as before.
ChannelDataAfter(data, ch, off, clamped) == data

\* ------------------------------------------------- component state (React)
\* TextToSpeech, lines 24-26: isGenerating, progress, audioUrl.  gpc is the
\* place the current generateAudio run has reached ("idle" when none is
\* running), timers the intervals started by setInterval and not cleared,
\* progressInterval the interval of the current run, runs the number of
\* runs started.
InitTTS ==
    [isGenerating |-> FALSE, progress |-> 0, audioUrl |-> FALSE,
     gpc |-> "idle", timers |-> {}, progressInterval |-> 0, runs |-> 0]

\* VideoComposer, lines 28-34, before it is mounted.
InitComposer ==
    [mounted |-> FALSE, audioBlob |-> FALSE, timeline |-> << >>,
     isProcessing |-> FALSE, progress |-> 0, audioDuration |-> 0,
     durationLoaded |-> FALSE, rpc |-> "idle", ri |-> 0, alerts |-> << >>,
     renders |-> 0, adds |-> 0]

Init ==
    /\ pc = [c \in Calls |-> "idle"]
    /\ buffer = [c \in Calls |-> NoBuffer]
    /\ length = [c \in Calls |-> 0]
    /\ view = [c \in Calls |-> << >>]
    /\ channels = [c \in Calls |-> << >>]
    /\ offset = [c \in Calls |-> 0]
    /\ pos = [c \in Calls |-> 0]
    /\ i = [c \in Calls |-> 0]
    /\ hstep = [c \in Calls |-> 0]
    /\ wlog = [c \in Calls |-> << >>]
    /\ tts = InitTTS
    /\ composer = InitComposer

\* Entry of audioBufferToWav with argument b: lines 324-329.
Call(c, b) ==
    /\ pc[c] = "idle"
    /\ buffer' = [buffer EXCEPT ![c] = b]
    /\ length' = [length EXCEPT ![c] = WavLength(b)]
    /\ view' = [view EXCEPT ![c] = NewArrayBuffer(WavLength(b))]
    /\ channels' = [channels EXCEPT ![c] = << >>]
    /\ offset' = [offset EXCEPT ![c] = InitialOffset]
    /\ pos' = [pos EXCEPT ![c] = InitialPos]
    /\ hstep' = [hstep EXCEPT ![c] = 1]
    /\ wlog' = [wlog EXCEPT ![c] = << >>]
    /\ pc' = [pc EXCEPT ![c] = "header"]
    /\ UNCHANGED i
    /\ UNCHANGED uiVars

\* One setUint32 / setUint16 call of the header: lines 332-358.
WriteHeader(c) ==
    /\ pc[c] = "header"
    /\ LET fld == HeaderFields(buffer[c], length[c], pos[c])[hstep[c]]
       IN /\ wlog' = [wlog EXCEPT ![c] =
                        Append(@, [pos |-> pos[c], size |-> fld.size, ch |-> -1, fr |-> -1])]
          /\ IF InRange(view[c], pos[c], fld.size)
             THEN /\ view' = [view EXCEPT ![c] = SetBytes(@, pos[c], UintBytes(fld.data, fld.size))]
                  /\ pos' = [pos EXCEPT ![c] = @ + fld.size]
                  /\ hstep' = [hstep EXCEPT ![c] = @ + 1]
                  /\ pc' = [pc EXCEPT ![c] = IF hstep[c] = HeaderCount THEN "collect" ELSE "header"]
             ELSE /\ pc' = [pc EXCEPT ![c] = "threw"]
                  /\ UNCHANGED <<view, pos, hstep>>
    /\ UNCHANGED <<buffer, length, channels, offset, i>>
    /\ UNCHANGED uiVars

\* for (...) channels.push(buffer.getChannelData(i)): lines 361-363.
Collect(c) ==
    /\ pc[c] = "collect"
    /\ channels' = [channels EXCEPT ![c] =
                      [j \in 1..buffer[c].numberOfChannels |-> buffer[c].chans[j]]]
    /\ pc' = [pc EXCEPT ![c] = "while"]
    /\ UNCHANGED <<buffer, length, view, offset, pos, i, hstep, wlog>>
    /\ UNCHANGED uiVars

\* The test of the while loop, line 365, and the return of line 375.
WhileTest(c) ==
    /\ pc[c] = "while"
    /\ IF WhileCond(pos[c], length[c])
       THEN /\ pc' = [pc EXCEPT ![c] = "for"]
            /\ i' = [i EXCEPT ![c] = 0]
       ELSE /\ pc' = [pc EXCEPT ![c] = "done"]
            /\ UNCHANGED i
    /\ UNCHANGED <<buffer, length, view, channels, offset, pos, hstep, wlog>>
    /\ UNCHANGED uiVars

\* One iteration of the inner for loop: lines 366-371.  getChannelData
\* returns the buffer's own storage, so channels[i] and the buffer's channel
\* data are one object: ChannelDataAfter is that object after the iteration.
ForBody(c) ==
    /\ pc[c] = "for"
    /\ i[c] < buffer[c].numberOfChannels
    /\ LET read == SampleAt(channels[c], i[c], offset[c])
           sample == Scale(Clamp(read))
       IN /\ wlog' = [wlog EXCEPT ![c] =
                        Append(@, [pos |-> pos[c], size |-> 2, ch |-> i[c], fr |-> offset[c]])]
          /\ buffer' = [buffer EXCEPT ![c].chans =
                          ChannelDataAfter(@, i[c], offset[c], Clamp(read))]
          /\ channels' = [channels EXCEPT ![c] =
                            ChannelDataAfter(@, i[c], offset[c], Clamp(read))]
          /\ IF InRange(view[c], pos[c], 2)
             THEN /\ view' = [view EXCEPT ![c] = SetBytes(@, pos[c], Int16Bytes(ToInt16(sample)))]
                  /\ pos' = [pos EXCEPT ![c] = @ + 2]
                  /\ i' = [i EXCEPT ![c] = @ + 1]
                  /\ pc' = pc
             ELSE /\ pc' = [pc EXCEPT ![c] = "threw"]
                  /\ UNCHANGED <<view, pos, i>>
    /\ UNCHANGED <<length, offset, hstep>>
    /\ UNCHANGED uiVars

\* The inner loop ends: offset++, line 372.
ForExit(c) ==
    /\ pc[c] = "for"
    /\ ~(i[c] < buffer[c].numberOfChannels)
    /\ offset' = [offset EXCEPT ![c] = @ + 1]
    /\ pc' = [pc EXCEPT ![c] = "while"]
    /\ UNCHANGED <<buffer, length, view, channels, pos, i, hstep, wlog>>
    /\ UNCHANGED uiVars

Step(c) == WriteHeader(c) \/ Collect(c) \/ WhileTest(c) \/ ForBody(c) \/ ForExit(c)

\* One call of audioBufferToWav on any buffer.
Next ==
    \/ \E b \in Buffers : Call(1, b)
    \/ WriteHeader(1)
    \/ Collect(1)
    \/ WhileTest(1)
    \/ ForBody(1)
    \/ ForExit(1)

Spec == Init /\ [][Next]_vars

TypeOK ==
    /\ \A c \in Calls : pc[c] \in {"idle", "header", "collect", "while", "for", "done", "threw"}
    /\ \A c \in Calls : \A k \in DOMAIN view[c] : view[c][k] \in 0..255
\* Calls made one after the other: a call starts when every earlier call
\* has returned.  The buffers are well-formed ones and one with a short
\* channel.
TwiceBuffers ==
    { MkBuffer(8000, nch, frames, start, 0) :
        nch \in 1..MaxChannels, frames \in 1..2, start \in {0, 7} }
    \cup { MkBuffer(8000, 1, 2, 0, 1) }

NextTwice ==
    \/ \E c \in Calls :
         /\ \A d \in 1..(c - 1) : pc[d] = "done"
         /\ \E b \in TwiceBuffers : Call(c, b)
    \/ \E c \in Calls : WriteHeader(c)
    \/ \E c \in Calls : Collect(c)
    \/ \E c \in Calls : WhileTest(c)
    \/ \E c \in Calls : ForBody(c)
    \/ \E c \in Calls : ForExit(c)

SpecTwice == Init /\ [][NextTwice]_vars

\* ------------------------------------------------------ reading the output
Done(c) == pc[c] = "done"

\* The bytes of the field of `size` bytes at offset off.
FieldBytes(v, off, size) == [d \in 1..size |-> v[off + d - 1]]

\* The value of the little-endian unsigned field at off, as digits.
FieldNum(v, off, size) == [d \in 1..NumBytes |-> IF d <= size THEN v[off + d - 1] ELSE 0]

\* The little-endian signed 16-bit integer at off.
Int16At(v, off) ==
    LET u == v[off] + 256 * v[off + 1]
    IN IF u >= 32768 THEN u - 65536 ELSE u

\* The sample of channel ch, frame fr of buffer b (both counted from 0).
InputSample(b, ch, fr) ==
    IF ch + 1 \in DOMAIN b.chans /\ fr + 1 \in DOMAIN b.chans[ch + 1]
    THEN b.chans[ch + 1][fr + 1]
    ELSE Undefined

\* The writes of samples a call has performed.
SampleWrites(c) ==
    { n \in DOMAIN wlog[c] : wlog[c][n].ch >= 0 /\ InRange(view[c], wlog[c][n].pos, 2) }

\* Section 4.1 of the specification, on the numerator n of a sample n/Den:
\* clamp to [-1, 1], multiply by 32768 if negative and by 32767 otherwise,
\* truncate toward zero.  The infinities clamp to the boundary.
SpecQuantize(s) ==
    LET n == s.whole * Den + s.frac
        cl == IF s.k = "inf" THEN s.whole * Den
              ELSE IF n > Den THEN Den ELSE IF n < -Den THEN -Den ELSE n
        m == IF cl < 0 THEN -cl ELSE cl
        scale == IF cl < 0 THEN 32768 ELSE 32767
        q == (m \div Den) * scale + (((m % Den) * scale) \div Den)
    IN IF cl < 0 THEN -q ELSE q

\* ----------------------------------------------------------------- claims

\* C1: for every well-formed buffer the returned byte sequence has length
\* exactly 44 + frameCount * channelCount * 2.
C1_LengthLaw ==
    \A c \in Calls :
        (Done(c) /\ WellFormed(buffer[c]))
            => ByteLength(view[c]) = 44 + buffer[c].length * buffer[c].numberOfChannels * 2

C1_Witness ==
    \E c \in Calls :
        /\ Done(c)
        /\ WellFormed(buffer[c])
        /\ buffer[c].numberOfChannels = 2
        /\ buffer[c].length = MaxFrames

\* C2: in the returned bytes the 32-bit field at offset 4 equals the output
\* length minus 8 and the 32-bit field at offset 40 equals
\* frameCount * channelCount * 2, the number of bytes after offset 44.
C2_SizeFields ==
    \A c \in Calls :
        (Done(c) /\ WellFormed(buffer[c]))
            => /\ FieldNum(view[c], 4, 4) = UInt(ByteLength(view[c]) - 8)
               /\ FieldNum(view[c], 40, 4)
                    = UInt(buffer[c].length * buffer[c].numberOfChannels * 2)
               /\ FieldNum(view[c], 40, 4) = UInt(ByteLength(view[c]) - 44)

C2_Witness ==
    \E c \in Calls :
        /\ Done(c)
        /\ WellFormed(buffer[c])
        /\ buffer[c].numberOfChannels = 2
        /\ buffer[c].length = 2
        /\ FieldBytes(view[c], 40, 4) = <<8, 0, 0, 0>>

\* The exact values the header fields of C3 are to hold, as digits.
ExpectedByteRate(b) == UMul(UMul(UInt(b.sampleRate), b.numberOfChannels), 2)

HeaderRecovers(c) ==
    /\ FieldNum(view[c], 22, 2) = UInt(buffer[c].numberOfChannels)
    /\ FieldNum(view[c], 24, 4) = UInt(buffer[c].sampleRate)
    /\ FieldNum(view[c], 28, 4) = ExpectedByteRate(buffer[c])
    /\ FieldNum(view[c], 32, 2) = UInt(buffer[c].numberOfChannels * 2)

\* channelCount * 2 fits 16 bits and sampleRate * channelCount * 2 fits 32.
FitsFields(b) ==
    /\ b.numberOfChannels * 2 < 65536
    /\ \A d \in 5..NumBytes : ExpectedByteRate(b)[d] = 0

\* C3 as stated: for any positive channelCount and sampleRate the fields at
\* offsets 22, 24, 28 and 32 of the returned header equal channelCount,
\* sampleRate, sampleRate * channelCount * 2 and channelCount * 2, no value
\* lost to the width of the field.
C3_Original ==
    \A c \in Calls :
        (Done(c) /\ buffer[c].numberOfChannels >= 1 /\ buffer[c].sampleRate >= 1)
            => HeaderRecovers(c)

\* C3 as amended: the same, for every positive channelCount and sampleRate
\* with channelCount * 2 < 2^16 and sampleRate * channelCount * 2 < 2^32.
C3_HeaderRoundTrip ==
    \A c \in Calls :
        (/\ Done(c)
         /\ buffer[c].numberOfChannels >= 1
         /\ buffer[c].sampleRate >= 1
         /\ FitsFields(buffer[c]))
            => HeaderRecovers(c)

C3_Witness ==
    \E c \in Calls :
        /\ Done(c)
        /\ buffer[c].numberOfChannels = 2
        /\ buffer[c].sampleRate = 44100
        /\ buffer[c].length >= 1
        /\ FitsFields(buffer[c])
        /\ FieldBytes(view[c], 32, 2) = <<4, 0>>

\* C4: each sample written is the input sample clamped to [-1, 1],
\* multiplied by 32768 when negative and by 32767 otherwise, and truncated
\* toward zero to an integer in -32768..32767.  (Stated for the samples
\* that are numbers; NaN has no clamped value.)
C4_Quantization ==
    \A c \in Calls : \A n \in SampleWrites(c) :
        LET e == wlog[c][n]
            s == InputSample(buffer[c], e.ch, e.fr)
        IN s.k \in {"fin", "inf"}
             => /\ Int16At(view[c], e.pos) = SpecQuantize(s)
                /\ Int16At(view[c], e.pos) \in -32768..32767

C4_Witness ==
    \E c \in Calls : \E n \in SampleWrites(c) :
        LET e == wlog[c][n]
        IN /\ Done(c)
           /\ InputSample(buffer[c], e.ch, e.fr) = Fin(Den \div 4)
           /\ Int16At(view[c], e.pos) = 8191
           /\ \E n2 \in SampleWrites(c) :
                /\ InputSample(buffer[c], wlog[c][n2].ch, wlog[c][n2].fr) = Fin(-3)
                /\ Int16At(view[c], wlog[c][n2].pos) = -1

\* C5: the sample of frame fr, channel ch occupies the two bytes at offset
\* 44 + (fr * channelCount + ch) * 2.
C5_Interleaving ==
    \A c \in Calls :
        (Done(c) /\ WellFormed(buffer[c]))
            => \A fr \in 0..(buffer[c].length - 1) :
                 \A ch \in 0..(buffer[c].numberOfChannels - 1) :
                    FieldBytes(view[c], 44 + (fr * buffer[c].numberOfChannels + ch) * 2, 2)
                      = Int16Bytes(ToInt16(Scale(Clamp(InputSample(buffer[c], ch, fr)))))

\* The two-channel scenario of section 8: 0.0, -0.5, 0.5, 1.0 in this order.
C5_Witness ==
    \E c \in Calls :
        /\ Done(c)
        /\ buffer[c].length = 2
        /\ buffer[c].chans = << <<Fin(0), Fin(Den \div 2)>>, <<Fin(-(Den \div 2)), Fin(Den)>> >>
        /\ Int16At(view[c], 44) = 0
        /\ Int16At(view[c], 46) = -16384
        /\ Int16At(view[c], 48) = 16383
        /\ Int16At(view[c], 50) = 32767

\* C6: 1.0 is stored as FF 7F, -1.0 as 00 80, 0.0 as 00 00 and a sample
\* above 1.0 as the same bytes as 1.0, each low byte first; the mono
\* scenario of section 8 yields 50 bytes ending 00 00 FF 7F 00 80.
C6_Boundaries ==
    \A c \in Calls :
        /\ \A n \in SampleWrites(c) :
             LET e == wlog[c][n]
                 s == InputSample(buffer[c], e.ch, e.fr)
                 bytes == FieldBytes(view[c], e.pos, 2)
             IN /\ s = Fin(Den) => bytes = <<255, 127>>
                /\ s = Fin(-Den) => bytes = <<0, 128>>
                /\ s = Fin(0) => bytes = <<0, 0>>
                /\ s = Fin(Den + (Den \div 2)) => bytes = <<255, 127>>
        /\ (/\ Done(c)
            /\ buffer[c].numberOfChannels = 1
            /\ buffer[c].length = 3
            /\ buffer[c].chans = << <<Fin(0), Fin(Den), Fin(-Den)>> >>)
             => /\ ByteLength(view[c]) = 50
                /\ FieldBytes(view[c], 44, 6) = <<0, 0, 255, 127, 0, 128>>

C6_Witness ==
    \E c \in Calls :
        /\ Done(c)
        /\ buffer[c].sampleRate = 8000
        /\ buffer[c].length = 3
        /\ buffer[c].chans = << <<Fin(0), Fin(Den), Fin(-Den)>> >>
        /\ \E c2 \in Calls : \E n \in SampleWrites(c2) :
             InputSample(buffer[c2], wlog[c2][n].ch, wlog[c2][n].fr) = Fin(Den)

\* The header writes of a call: the first HeaderCount entries of its log.
HeaderWrites(c) == { n \in DOMAIN wlog[c] : wlog[c][n].ch < 0 }

\* C7: for every input the returned header holds "RIFF" at 0..3, "WAVE" at
\* 8..11, "fmt " at 12..15, 16 at 16, 1 at 20, 16 at 34 and "data" at
\* 36..39, little-endian, and the header occupies exactly bytes 0..43: its
\* writes cover 0..43 and every sample is written at 44 or later.
C7_FixedHeader ==
    \A c \in Calls :
        /\ Done(c) =>
             /\ FieldBytes(view[c], 0, 4) = <<82, 73, 70, 70>>
             /\ FieldBytes(view[c], 8, 4) = <<87, 65, 86, 69>>
             /\ FieldBytes(view[c], 12, 4) = <<102, 109, 116, 32>>
             /\ FieldBytes(view[c], 16, 4) = <<16, 0, 0, 0>>
             /\ FieldBytes(view[c], 20, 2) = <<1, 0>>
             /\ FieldBytes(view[c], 34, 2) = <<16, 0>>
             /\ FieldBytes(view[c], 36, 4) = <<100, 97, 116, 97>>
             /\ UNION { wlog[c][n].pos..(wlog[c][n].pos + wlog[c][n].size - 1) :
                          n \in HeaderWrites(c) } = 0..43
        /\ \A n \in DOMAIN wlog[c] : wlog[c][n].ch >= 0 => wlog[c][n].pos >= 44
        /\ pc[c] = "collect" => pos[c] = 44

C7_Witness ==
    \E c \in Calls :
        /\ Done(c)
        /\ ~WellFormed(buffer[c])
        /\ buffer[c].numberOfChannels = 0
        /\ FieldBytes(view[c], 0, 4) = <<82, 73, 70, 70>>

\* C8: every write lands in 0..length-1 of the allocated buffer, for every
\* input including malformed ones: no write is attempted at or past the
\* buffer length, so the DataView never refuses one.
C8_WritesInBounds ==
    \A c \in Calls :
        /\ pc[c] # "threw"
        /\ pc[c] # "idle" => ByteLength(view[c]) = length[c]
        /\ \A n \in DOMAIN wlog[c] :
             /\ wlog[c][n].pos >= 0
             /\ wlog[c][n].pos + wlog[c][n].size <= length[c]

\* A malformed buffer (a channel shorter than frameCount) fully encoded.
C8_Witness ==
    \E c \in Calls :
        /\ Done(c)
        /\ buffer[c].numberOfChannels >= 1
        /\ \E ch \in 1..buffer[c].numberOfChannels : Len(buffer[c].chans[ch]) < buffer[c].length
        /\ Len(wlog[c]) = HeaderCount + buffer[c].length * buffer[c].numberOfChannels

\* C9: a non-finite input sample (+Infinity, -Infinity or NaN) is stored as
\* 32767 or -32768, or the encoder signals a failure; it is never stored as
\* another value.
C9_NonFinite ==
    \A c \in Calls : \A n \in SampleWrites(c) :
        LET e == wlog[c][n]
            s == InputSample(buffer[c], e.ch, e.fr)
        IN s.k \in {"nan", "inf"}
             => \/ pc[c] = "threw"
                \/ Int16At(view[c], e.pos) \in {32767, -32768}

\* C10: two calls on the same buffer return byte-identical outputs,
\* whatever was encoded before.
C10_Deterministic ==
    \A a \in Calls : \A b \in Calls :
        (Done(a) /\ Done(b) /\ buffer[a] = buffer[b]) => view[a] = view[b]

C10_Witness ==
    /\ Done(1)
    /\ Done(2)
    /\ buffer[1] = buffer[2]
    /\ WellFormed(buffer[1])
    /\ buffer[1].numberOfChannels = 2
\* The locals of call c.
Locals(c) == <<pc[c], buffer[c], length[c], view[c], channels[c], offset[c],
               pos[c], i[c], hstep[c], wlog[c]>>

\* C11: the call leaves its input unchanged: in every step of a call the
\* buffer's sampleRate, channelCount, frameCount and samples stay what they
\* were at entry, and nothing of a call that is not running (not started,
\* or returned) is modified.
C11_InputUnchanged ==
    [][\A c \in Calls :
         /\ pc[c] # "idle" => buffer'[c] = buffer[c]
         /\ (pc[c] \in {"idle", "done"} /\ pc'[c] = pc[c]) => Locals(c)' = Locals(c)]_vars

\* A call has returned on a buffer holding out-of-range samples, which the
\* encoder clamps for the output only.
C11_Witness ==
    \E c \in Calls :
        /\ Done(c)
        /\ WellFormed(buffer[c])
        /\ \E n \in SampleWrites(c) :
             /\ InputSample(buffer[c], wlog[c][n].ch, wlog[c][n].fr) = Fin(Den + (Den \div 2))
             /\ Int16At(view[c], wlog[c][n].pos) = 32767
        /\ channels[c] = buffer[c].chans
\* One call on a buffer of every shape, well-formed or with a short
\* channel.  The code is synchronous: a step that can be taken is taken.
LiveBuffers ==
    { MkBuffer(8000, nch, frames, 0, short) :
        nch \in 1..MaxChannels, frames \in 1..MaxFrames, short \in 0..1 }

NextLive ==
    \/ \E b \in LiveBuffers : Call(1, b)
    \/ WriteHeader(1)
    \/ Collect(1)
    \/ WhileTest(1)
    \/ ForBody(1)
    \/ ForExit(1)

SpecLive == Init /\ [][NextLive]_vars /\ WF_vars(NextLive)

\* The offsets of the payload slots of buffer b.
PayloadSlots(b) == { 44 + 2 * k : k \in 0..(b.length * b.numberOfChannels - 1) }

\* The call has returned a complete result.
Complete(c) ==
    /\ offset[c] = buffer[c].length
    /\ pos[c] = length[c]
    /\ pos[c] = ByteLength(view[c])
    /\ Cardinality(SampleWrites(c)) = buffer[c].length * buffer[c].numberOfChannels
    /\ \A p \in PayloadSlots(buffer[c]) :
         Cardinality({ n \in SampleWrites(c) : wlog[c][n].pos = p }) = 1
    /\ \A k \in 44..(ByteLength(view[c]) - 1) :
         \E n \in SampleWrites(c) : k \in wlog[c][n].pos..(wlog[c][n].pos + 1)

\* C12: on every well-formed input the call terminates and returns a
\* complete result: the loop ran exactly frameCount times, the write
\* position ended at the output length and each of the
\* frameCount * channelCount sample slots was written exactly once.
C12_CompleteResult ==
    /\ [](\A c \in Calls : (Done(c) /\ WellFormed(buffer[c])) => Complete(c))
    /\ [](\A c \in Calls : WellFormed(buffer[c]) => pc[c] # "threw")
    /\ (pc[1] = "header" /\ WellFormed(buffer[1])) ~> Done(1)

C12_Witness ==
    /\ Done(1)
    /\ WellFormed(buffer[1])
    /\ buffer[1].numberOfChannels = MaxChannels
    /\ offset[1] = MaxFrames
    /\ Complete(1)
\* Calls on independent buffers whose steps interleave in any order: any
\* call may start and any started call may take its next step at any time.
ConcBuffers == { MkBuffer(8000, 1, 1, 1, 0), MkBuffer(44100, 2, 1, 4, 0) }

NextConc ==
    \/ \E c \in Calls : \E b \in ConcBuffers : Call(c, b)
    \/ \E c \in Calls : WriteHeader(c)
    \/ \E c \in Calls : Collect(c)
    \/ \E c \in Calls : WhileTest(c)
    \/ \E c \in Calls : ForBody(c)
    \/ \E c \in Calls : ForExit(c)

SpecConc == Init /\ [][NextConc]_vars

\* audioBufferToWav run alone from entry to return, as a function of its
\* argument: the header writes in order, then the two nested loops.
RECURSIVE AloneHeader(_, _, _, _)
AloneHeader(v, p, n, b) ==
    IF n > HeaderCount THEN v
    ELSE LET fld == HeaderFields(b, ByteLength(v), p)[n]
         IN AloneHeader(SetBytes(v, p, UintBytes(fld.data, fld.size)), p + fld.size, n + 1, b)

RECURSIVE AloneSamples(_, _, _, _, _)
AloneSamples(v, p, off, ch, b) ==
    IF ch < b.numberOfChannels
    THEN AloneSamples(SetBytes(v, p, Int16Bytes(ToInt16(Scale(Clamp(SampleAt(b.chans, ch, off)))))),
                      p + 2, off, ch + 1, b)
    ELSE IF WhileCond(p, ByteLength(v)) THEN AloneSamples(v, p, off + 1, 0, b)
    ELSE v

AloneOutput(b) ==
    LET h == AloneHeader(NewArrayBuffer(WavLength(b)), 0, 1, b)
    IN IF WhileCond(44, ByteLength(h)) THEN AloneSamples(h, 44, 0, 0, b) ELSE h

\* C13: two calls on independent buffers whose steps interleave in any
\* order each return the output the call produces when run alone; no call
\* disturbs another.
C13_Reentrant ==
    \A c \in Calls :
        /\ pc[c] # "threw"
        /\ Done(c) => view[c] = AloneOutput(buffer[c])

\* Both calls are in their sample loops at the same time, on different
\* buffers.
C13_Witness ==
    /\ pc[1] = "for"
    /\ pc[2] = "for"
    /\ buffer[1] # buffer[2]
    /\ hstep[1] = HeaderCount + 1
    /\ hstep[2] = HeaderCount + 1
\* ------------------------------------------- TextToSpeech: generateAudio
\* The catch branch, lines 107-111: the interval is not cleared there
\* (progressInterval is declared inside the try block).
Catch(t) == [t EXCEPT !.isGenerating = FALSE, !.progress = 0, !.gpc = "idle"]

\* A click on the button of lines 299-306 (enabled unless isGenerating; the
\* text is taken to be valid): lines 35-72, up to the await.  `throws` says
\* whether a statement of lines 53-72 throws (no speech synthesis in the
\* browser); the interval of line 42 has been started by then.
GenerateAudio(throws) ==
    /\ ~tts.isGenerating
    /\ tts.runs < MaxRuns
    /\ LET id == tts.runs + 1
           started == [tts EXCEPT !.isGenerating = TRUE, !.progress = 0,
                                  !.timers = @ \cup {id}, !.progressInterval = id,
                                  !.runs = id]
       IN tts' = IF throws THEN Catch(started) ELSE [started EXCEPT !.gpc = "speaking"]
    /\ UNCHANGED <<encVars, composer>>

\* The interval callback of lines 42-50, every 200 ms while not cleared.
ProgressTick(id) ==
    /\ id \in tts.timers
    /\ tts' = IF tts.progress >= 90
              THEN [tts EXCEPT !.timers = @ \ {id}, !.progress = 90]
              ELSE [tts EXCEPT !.progress = @ + 10]
    /\ UNCHANGED <<encVars, composer>>

\* The utterance fires `end`: the promise of lines 70-73 resolves and lines
\* 77-91 run up to the await of startRendering; `throws` says whether one
\* of them throws (no AudioContext can be created).
UtteranceEnd(throws) ==
    /\ tts.gpc = "speaking"
    /\ tts' = IF throws THEN Catch(tts) ELSE [tts EXCEPT !.gpc = "rendering"]
    /\ UNCHANGED <<encVars, composer>>

\* The utterance fires `error` and no `end`: nothing listens (only onend is
\* set, line 71), the promise never resolves.
UtteranceError ==
    /\ tts.gpc = "speaking"
    /\ tts' = [tts EXCEPT !.gpc = "unresolved"]
    /\ UNCHANGED <<encVars, composer>>

\* startRendering settles.  Fulfilled: lines 92-105 (the WAV is encoded,
\* the interval cleared, progress 100, the 500 ms timeout set).  Rejected:
\* the catch branch.
RenderingSettled(fulfilled) ==
    /\ tts.gpc = "rendering"
    /\ tts' = IF fulfilled
              THEN [tts EXCEPT !.timers = @ \ {tts.progressInterval}, !.progress = 100,
                               !.audioUrl = TRUE, !.gpc = "finishing"]
              ELSE Catch(tts)
    /\ UNCHANGED <<encVars, composer>>

\* The timeout of lines 102-105.
FinishTimeout ==
    /\ tts.gpc = "finishing"
    /\ tts' = [tts EXCEPT !.isGenerating = FALSE, !.progress = 0, !.gpc = "idle"]
    /\ UNCHANGED <<encVars, composer>>

NextTTS ==
    \/ \E throws \in BOOLEAN : GenerateAudio(throws)
    \/ \E id \in 1..MaxRuns : ProgressTick(id)
    \/ \E throws \in BOOLEAN : UtteranceEnd(throws)
    \/ UtteranceError
    \/ \E fulfilled \in BOOLEAN : RenderingSettled(fulfilled)
    \/ FinishTimeout

\* Timers fire, promises that settle run their continuation, and the
\* speech engine reports the end or the failure of an utterance.
SpecTTS ==
    /\ Init
    /\ [][NextTTS]_vars
    /\ WF_vars(\E id \in 1..MaxRuns : ProgressTick(id))
    /\ WF_vars((\E throws \in BOOLEAN : UtteranceEnd(throws)) \/ UtteranceError)
    /\ WF_vars(\E fulfilled \in BOOLEAN : RenderingSettled(fulfilled))
    /\ WF_vars(FinishTimeout)

\* C15: whenever isGenerating is false, progress is 0 and no progress timer
\* started by generateAudio is still running, after every sequence of
\* generations, the error path included.
C15_IdleIsClean ==
    ~tts.isGenerating => (tts.progress = 0 /\ tts.timers = {})

\* C16: every generateAudio run that sets isGenerating to true eventually
\* sets it back to false, whether the utterance ends or fails without
\* firing its end event.
C16_GenerationEnds == tts.isGenerating ~> ~tts.isGenerating
\* ------------------------------------------------------- VideoComposer
\* The uploaded media: an image, a video of 2 s and a video whose duration
\* is not known.  Times are whole seconds.
MediaLibrary ==
    << [id |-> 1, type |-> "image", duration |-> 0],
       [id |-> 2, type |-> "video", duration |-> 2],
       [id |-> 3, type |-> "video", duration |-> 0] >>

\* The durations the audio element may report (the generated WAV lasts 3 s).
AudioDurations == {3, 12}

\* Home renders VideoComposer with its audioBlob, null or the generated
\* blob (part_000, line 59); the component starts from its initial state.
Mount(blob) ==
    /\ ~composer.mounted
    /\ composer' = [composer EXCEPT !.mounted = TRUE, !.audioBlob = blob]
    /\ UNCHANGED <<encVars, tts>>

\* The loadedmetadata listener of the effect, lines 40-47.
AudioDurationLoaded(d) ==
    /\ composer.mounted
    /\ composer.audioBlob
    /\ ~composer.durationLoaded
    /\ composer' = [composer EXCEPT !.audioDuration = d, !.durationLoaded = TRUE]
    /\ UNCHANGED <<encVars, tts>>

\* mediaItem.type === 'video' ? (mediaItem.duration || 5) : 5
DefaultDuration(m) ==
    IF m.type = "video" THEN (IF m.duration # 0 THEN m.duration ELSE 5) ELSE 5

Min(a, b) == IF a < b THEN a ELSE b

\* Math.min(startTime + defaultDuration, audioDuration || startTime + defaultDuration)
EndTime(startTime, defaultDuration, audioDuration) ==
    Min(startTime + defaultDuration,
        IF audioDuration # 0 THEN audioDuration ELSE startTime + defaultDuration)

\* addToTimeline, lines 99-113.
AddToTimeline(m) ==
    /\ composer.mounted
    /\ composer.adds < MaxAdds
    /\ LET tl == composer.timeline
           startTime == IF Len(tl) > 0 THEN tl[Len(tl)].endTime ELSE 0
           endTime == EndTime(startTime, DefaultDuration(m), composer.audioDuration)
       IN composer' = [composer EXCEPT
                         !.timeline = Append(@, [id |-> m.id, startTime |-> startTime,
                                                 endTime |-> endTime]),
                         !.adds = @ + 1]
    /\ UNCHANGED <<encVars, tts>>

\* removeFromTimeline, lines 115-117: every item with that id goes.
RemoveFromTimeline(id) ==
    /\ composer.mounted
    /\ \E k \in DOMAIN composer.timeline : composer.timeline[k].id = id
    /\ composer' = [composer EXCEPT !.timeline = SelectSeq(@, LAMBDA it : it.id # id)]
    /\ UNCHANGED <<encVars, tts>>

\* applyImageToEntireAudio, lines 83-97.
ApplyImageToEntireAudio ==
    /\ composer.mounted
    /\ Len(MediaLibrary) # 0
    /\ composer.audioDuration # 0
    /\ \E k \in DOMAIN MediaLibrary :
         /\ MediaLibrary[k].type = "image"
         /\ \A j \in 1..(k - 1) : MediaLibrary[j].type # "image"
         /\ composer' = [composer EXCEPT !.timeline =
                           << [id |-> MediaLibrary[k].id, startTime |-> 0,
                               endTime |-> composer.audioDuration] >>]
    /\ UNCHANGED <<encVars, tts>>

\* Variant: the loop leaves one step early, i < 100.
RenderLoopCond_Strict(n) == n < 100

\* for (let i = 0; i <= 100; i += 10)
RenderLoopCond(n) == n <= 100

\* renderVideo is entered, lines 126-132.  No render is running (the button
\* of lines 425-427 is disabled while isProcessing); the function's own
\* test decides between the alert and the start of the rendering.
RenderVideo ==
    /\ composer.mounted
    /\ ~composer.isProcessing
    /\ composer.rpc = "idle"
    /\ composer.renders < MaxRenders
    /\ composer' =
         IF Len(composer.timeline) = 0 \/ ~composer.audioBlob
         THEN [composer EXCEPT !.alerts = Append(@, "missing"), !.renders = @ + 1]
         ELSE [composer EXCEPT !.isProcessing = TRUE, !.progress = 0, !.rpc = "loop",
                               !.ri = 0, !.renders = @ + 1]
    /\ UNCHANGED <<encVars, tts>>

\* One pass of the loop, lines 136-138, up to the await; or, the loop over,
\* the alert of line 144 and the finally block, lines 149-152.
RenderLoop ==
    /\ composer.rpc = "loop"
    /\ composer' =
         IF RenderLoopCond(composer.ri)
         THEN [composer EXCEPT !.progress = composer.ri, !.rpc = "sleep"]
         ELSE [composer EXCEPT !.alerts = Append(@, "done"), !.isProcessing = FALSE,
                               !.progress = 0, !.rpc = "idle"]
    /\ UNCHANGED <<encVars, tts>>

\* The 300 ms timeout of line 138 fires: i += 10.
RenderTimeout ==
    /\ composer.rpc = "sleep"
    /\ composer' = [composer EXCEPT !.ri = @ + 10, !.rpc = "loop"]
    /\ UNCHANGED <<encVars, tts>>

NextComposer ==
    \/ \E blob \in BOOLEAN : Mount(blob)
    \/ \E d \in AudioDurations : AudioDurationLoaded(d)
    \/ \E k \in DOMAIN MediaLibrary : AddToTimeline(MediaLibrary[k])
    \/ \E k \in DOMAIN MediaLibrary : RemoveFromTimeline(MediaLibrary[k].id)
    \/ ApplyImageToEntireAudio
    \/ RenderVideo
    \/ RenderLoop
    \/ RenderTimeout

\* The loop's steps and its timers run when they can.
SpecComposer ==
    Init /\ [][NextComposer]_vars /\ WF_vars(RenderLoop) /\ WF_vars(RenderTimeout)

\* An alert of the given kind is shown in this step.
Alerted(kind) ==
    /\ Len(composer.alerts') = Len(composer.alerts) + 1
    /\ composer.alerts'[Len(composer.alerts')] = kind

\* renderVideo is entered in this step.
RenderEntered == composer.renders' = composer.renders + 1

\* C14: entered with a non-empty timeline and an audio blob, renderVideo
\* sets isProcessing and steps progress through 0, 10, ..., 100 in
\* increasing order, shows the completion alert only after progress reached
\* 100 and then ends with isProcessing = false and progress = 0; entered
\* with an empty timeline or no audio blob it only alerts and leaves
\* isProcessing and progress unchanged.
C14_RenderVideo ==
  /\ composer.isProcessing ~> (~composer.isProcessing /\ composer.progress = 0)
  /\ [][
       /\ (RenderEntered /\ Len(composer.timeline) # 0 /\ composer.audioBlob)
            => /\ composer.isProcessing'
               /\ composer.progress' = 0
               /\ composer.alerts' = composer.alerts
       /\ (RenderEntered /\ (Len(composer.timeline) = 0 \/ ~composer.audioBlob))
            => /\ Alerted("missing")
               /\ composer.isProcessing' = composer.isProcessing
               /\ composer.progress' = composer.progress
               /\ composer.rpc' = composer.rpc
       /\ composer.progress' # composer.progress
            => \/ composer.isProcessing /\ composer.progress' = composer.progress + 10
               \/ composer.progress = 100 /\ composer.progress' = 0 /\ Alerted("done")
       /\ Alerted("done")
            => /\ composer.progress = 100
               /\ ~composer.isProcessing'
               /\ composer.progress' = 0
       /\ composer.isProcessing' = (composer.rpc' # "idle")
       /\ ~composer.isProcessing' => composer.progress' = 0
       /\ (composer.isProcessing /\ ~composer.isProcessing') => Alerted("done")]_vars

\* One render was refused with the alert and one ran to its completion.
C14_Witness ==
    /\ composer.rpc = "idle"
    /\ \E a \in DOMAIN composer.alerts : composer.alerts[a] = "missing"
    /\ \E a \in DOMAIN composer.alerts : composer.alerts[a] = "done"
    /\ ~composer.isProcessing
    /\ composer.progress = 0

\* C17: after any sequence of addToTimeline, removeFromTimeline,
\* applyImageToEntireAudio and audio-duration-loaded events every timeline
\* item has startTime <= endTime and no item starts before the item before
\* it ends.
C17_TimelineOrdered ==
    \A k \in DOMAIN composer.timeline :
        /\ composer.timeline[k].startTime <= composer.timeline[k].endTime
        /\ k > 1 => composer.timeline[k].startTime >= composer.timeline[k - 1].endTime
====
